---- MODULE Spec2Model ----
(***************************************************************************)
(* A model of flagz.DynJSONValue (src/dynjson.go): a flag value holding a  *)
(* pointer to a JSON struct that is replaced atomically by Set and read    *)
(* lock-free by Get, with an optional validator and an optional notifier   *)
(* that runs in its own goroutine.                                         *)
(*                                                                         *)
(* Memory is a heap of struct instances indexed by address.  Each caller   *)
(* goroutine runs Set as a sequence of steps, one per access to shared     *)
(* memory, so that Get, Set, WithValidator and WithNotifier interleave as  *)
(* goroutines do.  json.Unmarshal fills the fresh instance one object      *)
(* member at a time.                                                       *)
(***************************************************************************)
EXTENDS Integers, Sequences, FiniteSets, Bags, TLC

\* ---------------------------------------------------------------- bounds
\* Total number of Set calls made on the container.
MaxSets == 2

\* ------------------------------------------------------------ the world
\* Caller goroutines.
Threads == {"g1", "g2"}

\* The registered struct type: struct { Timeout int; Retries int }.
Fields == {"Timeout", "Retries"}
\* reflect.New(d.structType): the zero value of the struct.
Zero == [Timeout |-> 0, Retries |-> 0]
\* The instance the caller passes to DynJSON, at address SeedAddr.
SeedAddr == 0
SeedVal == [Timeout |-> 30, Retries |-> 1]
\* No address / no instance.
NilAddr == -1

\* Values a caller may hand to DynJSON: kind is reflect.Value.Kind(), elem the
\* kind of what a pointer points to ("Invalid" for a nil pointer or non-pointer),
\* typ the type a pointer points to.  Config is struct { Timeout int; Retries int }.
Values ==
  { [kind |-> "Ptr",     elem |-> "Struct",  addr |-> SeedAddr, typ |-> "Config"],
    [kind |-> "Ptr",     elem |-> "Int",     addr |-> NilAddr,  typ |-> "int"],
    [kind |-> "Ptr",     elem |-> "Invalid", addr |-> NilAddr,  typ |-> "Config"],
    [kind |-> "Struct",  elem |-> "Invalid", addr |-> NilAddr,  typ |-> "none"],
    [kind |-> "Int",     elem |-> "Invalid", addr |-> NilAddr,  typ |-> "none"],
    [kind |-> "Slice",   elem |-> "Invalid", addr |-> NilAddr,  typ |-> "none"],
    [kind |-> "Map",     elem |-> "Invalid", addr |-> NilAddr,  typ |-> "none"],
    [kind |-> "Invalid", elem |-> "Invalid", addr |-> NilAddr,  typ |-> "none"] }

\* A JSON member "key": value.  kind is the JSON kind of the value.
Num(k, n) == [key |-> k, kind |-> "number", val |-> n]
Str(k) == [key |-> k, kind |-> "string", val |-> 0]

\* Inputs to Set: syntaxOK says whether the text is well-formed JSON, members
\* are the members of the top-level object in textual order.
InBoth      == [syntaxOK |-> TRUE, members |-> << Num("timeout", 7), Num("Retries", 3) >>]
InNegative  == [syntaxOK |-> TRUE, members |-> << Num("Timeout", -5) >>]
InOops      == [syntaxOK |-> TRUE, members |-> << Str("Timeout"), Num("Retries", 3) >>]
InTruncated == [syntaxOK |-> FALSE, members |-> << Num("Timeout", 60) >>]
InEmpty     == [syntaxOK |-> TRUE, members |-> << >>]
Inputs == {InBoth, InNegative, InOops, InTruncated}

\* Validators and notifiers the application may attach; "nil" is the unset field.
Validators == {"vPositive"}
Notifiers == {"n1"}

\* ------------------------------------------------------------ the state
VARIABLES
  reg,         \* "none" before DynJSON, "ok" after it returned, "panic" after it panicked
  value,       \* history: the value DynJSON was called with
  flagSet,     \* flags registered in the pflag.FlagSet
  structType,  \* d.structType
  heap,        \* allocated struct instances: address -> contents
  ptr,         \* d.ptr
  validator,   \* d.validator
  notifier,    \* d.notifier
  attached,    \* history: the last argument of WithValidator and of WithNotifier
  frame,       \* per goroutine: its call of Set (position and locals), or Idle
  tasks,       \* the bag of notifier goroutines started by `go d.notifier(...)`
  swaps,       \* history: the SwapPointer calls executed, in order
  ret,         \* history: the last call of Set that returned, and what it returned,
               \*          until its goroutine calls Set again
  got          \* history: the last Get, String or PrettyString: who called it, the
               \*          address and contents Get saw and the string returned,
               \*          until its goroutine calls Set

vars == << reg, value, flagSet, structType, heap, ptr, validator, notifier, attached, frame,
           tasks, swaps, ret, got >>

container == << reg, value, flagSet, structType, validator, notifier, attached >>

\* A goroutine outside Set.  Inside Set: pc is the position, input the
\* argument, someStruct and oldPtr the locals of that name, pos the number of
\* members json.Unmarshal has consumed, derr the error it has saved, vused the
\* validator that was called ("nil": none), nAtSwap what d.notifier held at the
\* instant of the swap.
Idle == [pc |-> "idle", input |-> InEmpty, someStruct |-> NilAddr, oldPtr |-> NilAddr,
         pos |-> 0, derr |-> "nil", vused |-> "nil", nAtSwap |-> "nil"]

\* DynJSON has not been called.
NoValue == [kind |-> "none", elem |-> "none", addr |-> NilAddr, typ |-> "none"]

\* A Go string that is the JSON text of an object: its members in textual
\* order and the indentation of its lines ("" for the compact form).
Json(members, indent) == [kind |-> "json", indent |-> indent, members |-> members]
\* The strings "ERR" and "".
ERR == [kind |-> "ERR", indent |-> "", members |-> << >>]
Empty == [kind |-> "empty", indent |-> "", members |-> << >>]
\* No string: what a call that returns a value, not a string, leaves.
NoOut == [kind |-> "none", indent |-> "", members |-> << >>]

NoGet == [by |-> "nobody", fn |-> "none", addr |-> NilAddr, val |-> Zero, out |-> NoOut]
NoRet == [by |-> "nobody", input |-> InEmpty, someStruct |-> NilAddr, err |-> "nil",
          vused |-> "nil", nAtSwap |-> "nil"]

Init ==
  /\ reg = "none"
  /\ value = NoValue
  /\ flagSet = {}
  /\ structType = "none"
  /\ heap = (SeedAddr :> SeedVal)
  /\ ptr = NilAddr
  /\ validator = "nil"
  /\ notifier = "nil"
  /\ attached = [validator |-> "nil", notifier |-> "nil"]
  /\ frame = [t \in Threads |-> Idle]
  /\ tasks = EmptyBag
  /\ swaps = << >>
  /\ ret = NoRet
  /\ got = NoGet

\* The next free address: reflect.New allocates a fresh instance.
NewAddr == Cardinality(DOMAIN heap)

\* ------------------------------------------------------- registration
\* The condition of DynJSON's panic, negated (line 20).
IsStructPtr(v) == v.kind = "Ptr" /\ v.elem = "Struct"

\* Mutant of DynJSON: the container starts from a copy of the caller's struct.
M_DynJSONCopies(v) ==
  /\ reg = "none"
  /\ value' = v
  /\ IF IsStructPtr(v)
       THEN /\ reg' = "ok"
            /\ heap' = heap @@ (NewAddr :> heap[v.addr])
            /\ ptr' = NewAddr
            /\ structType' = v.typ
            /\ flagSet' = flagSet \cup {[name |-> "flag", dynamic |-> TRUE]}
       ELSE /\ reg' = "panic"
            /\ UNCHANGED << heap, ptr, structType, flagSet >>
  /\ UNCHANGED << validator, notifier, attached, frame, tasks, swaps, ret, got >>

\* Mutant of DynJSON: the flag is registered in the flag set before the kind
\* of the value is checked.
M_DynJSONRegistersFirst(v) ==
  /\ reg = "none"
  /\ value' = v
  /\ flagSet' = flagSet \cup {[name |-> "flag", dynamic |-> TRUE]}
  /\ IF IsStructPtr(v)
       THEN /\ reg' = "ok"
            /\ ptr' = v.addr
            /\ structType' = v.typ
       ELSE /\ reg' = "panic"
            /\ UNCHANGED << ptr, structType >>
  /\ UNCHANGED << heap, validator, notifier, attached, frame, tasks, swaps, ret, got >>

\* Lines 18-27.
DynJSON(v) ==
  /\ reg = "none"
  /\ value' = v
  /\ IF IsStructPtr(v)
       THEN /\ reg' = "ok"
            /\ ptr' = v.addr
            /\ structType' = v.typ
            /\ flagSet' = flagSet \cup {[name |-> "flag", dynamic |-> TRUE]}
       ELSE /\ reg' = "panic"
            /\ UNCHANGED << ptr, structType, flagSet >>
  /\ UNCHANGED << heap, validator, notifier, attached, frame, tasks, swaps, ret, got >>

\* ---------------------------------------------------------------- Get
\* unsafeToStoredType: the pointer retyped to *structType; the address is kept.
unsafeToStoredType(p) == p

\* Mutant of Get: it returns the pointer DynJSON was given instead of loading d.ptr.
M_GetRegistered(t) ==
  /\ reg = "ok"
  /\ frame[t].pc = "idle"
  /\ got' = [by |-> t, fn |-> "Get", addr |-> SeedAddr, val |-> heap[SeedAddr],
             out |-> NoOut]
  /\ UNCHANGED << container, heap, ptr, frame, tasks, swaps, ret >>

\* Mutant of Get: the pointer is not loaded atomically and the reader may be
\* handed the pointer the last swap replaced.
M_GetStale(t) ==
  /\ reg = "ok"
  /\ frame[t].pc = "idle"
  /\ \E p \in {ptr} \cup {swaps[i].old : i \in {Len(swaps)} \ {0}} :
       got' = [by |-> t, fn |-> "Get", addr |-> unsafeToStoredType(p),
               val |-> heap[unsafeToStoredType(p)], out |-> NoOut]
  /\ UNCHANGED << container, heap, ptr, frame, tasks, swaps, ret >>

\* Mutant of Get: the reader waits until no Set is in progress, as under a
\* read-write lock.
M_GetWaitsForWriters(t) ==
  /\ reg = "ok"
  /\ \A u \in Threads : frame[u].pc = "idle"
  /\ got' = [by |-> t, fn |-> "Get", addr |-> unsafeToStoredType(ptr),
             val |-> heap[unsafeToStoredType(ptr)], out |-> NoOut]
  /\ UNCHANGED << container, heap, ptr, frame, tasks, swaps, ret >>

\* atomic.LoadPointer(&d.ptr); the reader then reads the instance's fields.
Get(t) ==
  /\ reg = "ok"
  /\ frame[t].pc = "idle"
  /\ got' = [by |-> t, fn |-> "Get", addr |-> unsafeToStoredType(ptr),
             val |-> heap[unsafeToStoredType(ptr)], out |-> NoOut]
  /\ UNCHANGED << container, heap, ptr, frame, tasks, swaps, ret >>

\* ----------------------------------------- Type / String / PrettyString
\* Watch is struct { Timeout int; Retries int; Done chan bool }: a struct type
\* json.Marshal cannot encode, whatever the value.  No input names Done, so
\* its instances are told apart by Timeout and Retries alone.
MoreValues == { [kind |-> "Ptr", elem |-> "Struct", addr |-> SeedAddr, typ |-> "Watch"] }

\* json.Marshal(v) for v of type *typ with contents s: the bytes and the
\* error.  The members are the exported fields in declaration order, under
\* their Go names; a channel field is an UnsupportedTypeError.
Marshal(typ, s) ==
  IF typ = "Watch"
    THEN [out |-> Empty, err |-> "UnsupportedTypeError"]
    ELSE [out |-> Json(<< Num("Timeout", s.Timeout), Num("Retries", s.Retries) >>, ""),
          err |-> "nil"]

\* json.MarshalIndent(v, "", indent): Marshal, then every member on a line
\* of its own behind indent.
MarshalIndent(typ, s, indent) ==
  LET m == Marshal(typ, s)
  IN IF m.err # "nil" THEN m ELSE [out |-> Json(m.out.members, indent), err |-> "nil"]

\* Lines 77-79.
Type == "dyn_json"

\* Lines 83-89.
PrettyString(t) ==
  /\ reg = "ok"
  /\ frame[t].pc = "idle"
  /\ LET p == unsafeToStoredType(ptr)
         m == MarshalIndent(structType, heap[p], "  ")
     IN got' = [by |-> t, fn |-> "PrettyString", addr |-> p, val |-> heap[p],
                out |-> IF m.err # "nil" THEN ERR ELSE m.out]
  /\ UNCHANGED << container, heap, ptr, frame, tasks, swaps, ret >>

\* Mutant of String: the error of json.Marshal is not looked at.
M_StringIgnoresErr(t) ==
  /\ reg = "ok"
  /\ frame[t].pc = "idle"
  /\ LET p == unsafeToStoredType(ptr)
         m == Marshal(structType, heap[p])
     IN got' = [by |-> t, fn |-> "String", addr |-> p, val |-> heap[p], out |-> m.out]
  /\ UNCHANGED << container, heap, ptr, frame, tasks, swaps, ret >>

\* Lines 92-98.
String(t) ==
  /\ reg = "ok"
  /\ frame[t].pc = "idle"
  /\ LET p == unsafeToStoredType(ptr)
         m == Marshal(structType, heap[p])
     IN got' = [by |-> t, fn |-> "String", addr |-> p, val |-> heap[p],
                out |-> IF m.err # "nil" THEN ERR ELSE m.out]
  /\ UNCHANGED << container, heap, ptr, frame, tasks, swaps, ret >>

\* ------------------------------------------------------ json.Unmarshal
\* encoding/json matches object keys to struct fields ignoring case; a key
\* that names no field is skipped.
FieldOf(key) ==
  CASE key \in {"Timeout", "timeout"} -> "Timeout"
    [] key \in {"Retries", "retries"} -> "Retries"
    [] OTHER -> "none"

\* The error decoding one member produces: a JSON string cannot be stored in
\* an int field.
MemberErr(m) ==
  IF FieldOf(m.key) # "none" /\ m.kind = "string" THEN "UnmarshalTypeError" ELSE "nil"

\* The struct after decoding one member into it: a member in error is skipped.
ApplyMember(s, m) ==
  IF FieldOf(m.key) # "none" /\ m.kind = "number"
    THEN [s EXCEPT ![FieldOf(m.key)] = m.val]
    ELSE s

\* json.Unmarshal(input, &s) as a whole: the struct it leaves and the error it
\* returns.  A syntax error is found before anything is stored; a type error
\* is saved (the first one wins) and decoding goes on.
RECURSIVE DecodeFrom(_, _, _, _)
DecodeFrom(members, i, s, e) ==
  IF i > Len(members)
    THEN [val |-> s, err |-> e]
    ELSE DecodeFrom(members, i + 1, ApplyMember(s, members[i]),
                    IF e = "nil" THEN MemberErr(members[i]) ELSE e)

Decode(in) ==
  IF ~in.syntaxOK
    THEN [val |-> Zero, err |-> "SyntaxError"]
    ELSE DecodeFrom(in.members, 1, Zero, "nil")

\* ----------------------------------------------------------- validators
\* The validators of the application: vPositive rejects Timeout <= 0, vRetries
\* rejects Retries = 0.
Validate(v, s) ==
  CASE v = "vPositive" -> IF s.Timeout <= 0 THEN "ErrTimeout" ELSE "nil"
    [] v = "vRetries" -> IF s.Retries = 0 THEN "ErrRetries" ELSE "nil"

\* ---------------------------------------------------------------- Set
\* `return e`: Set, whose frame is f, hands e to its caller and the frame is gone.
Return(t, f, e) ==
  /\ frame' = [frame EXCEPT ![t] = Idle]
  /\ ret' = [by |-> t, input |-> f.input, someStruct |-> f.someStruct, err |-> e,
             vused |-> f.vused, nAtSwap |-> f.nAtSwap]

\* Mutant of SetNew: json.Unmarshal is handed the current instance, d.Get(),
\* instead of a fresh one.
M_SetNewReusesCurrent(t, in) ==
  /\ reg = "ok"
  /\ frame[t].pc = "idle"
  /\ NewAddr <= MaxSets
  /\ heap' = heap @@ (NewAddr :> Zero)
  /\ frame' = [frame EXCEPT ![t] = [Idle EXCEPT !.pc = "unmarshal", !.input = in,
                                                !.someStruct = ptr]]
  /\ got' = IF got.by = t THEN NoGet ELSE got
  /\ ret' = IF ret.by = t THEN NoRet ELSE ret
  /\ UNCHANGED << container, ptr, tasks, swaps >>

\* Mutant of SetNew: the fresh instance is stored into d.ptr before it is decoded.
M_SetNewPublishes(t, in) ==
  /\ reg = "ok"
  /\ frame[t].pc = "idle"
  /\ NewAddr <= MaxSets
  /\ heap' = heap @@ (NewAddr :> Zero)
  /\ ptr' = NewAddr
  /\ frame' = [frame EXCEPT ![t] = [Idle EXCEPT !.pc = "unmarshal", !.input = in,
                                                !.someStruct = NewAddr]]
  /\ got' = IF got.by = t THEN NoGet ELSE got
  /\ ret' = IF ret.by = t THEN NoRet ELSE ret
  /\ UNCHANGED << container, tasks, swaps >>

\* Mutant of SetNew: the fresh instance starts as a copy of the current value,
\* so that an input overlays the current configuration.
M_SetNewCopiesCurrent(t, in) ==
  /\ reg = "ok"
  /\ frame[t].pc = "idle"
  /\ NewAddr <= MaxSets
  /\ heap' = heap @@ (NewAddr :> heap[ptr])
  /\ frame' = [frame EXCEPT ![t] = [Idle EXCEPT !.pc = "unmarshal", !.input = in,
                                                !.someStruct = NewAddr]]
  /\ got' = IF got.by = t THEN NoGet ELSE got
  /\ ret' = IF ret.by = t THEN NoRet ELSE ret
  /\ UNCHANGED << container, ptr, tasks, swaps >>

\* Line 47: someStruct := reflect.New(d.structType).Interface()
\* What the goroutine got from Get, and from Set, before this call is forgotten.
SetNew(t, in) ==
  /\ reg = "ok"
  /\ frame[t].pc = "idle"
  /\ NewAddr <= MaxSets
  /\ heap' = heap @@ (NewAddr :> Zero)
  /\ frame' = [frame EXCEPT ![t] = [Idle EXCEPT !.pc = "unmarshal", !.input = in,
                                                !.someStruct = NewAddr]]
  /\ got' = IF got.by = t THEN NoGet ELSE got
  /\ ret' = IF ret.by = t THEN NoRet ELSE ret
  /\ UNCHANGED << container, ptr, tasks, swaps >>

\* Mutant of SetUnmarshal: the error json.Unmarshal returns is not looked at.
M_SetUnmarshalIgnoresErr(t) ==
  /\ frame[t].pc = "unmarshal"
  /\ LET f == frame[t]
         n == Len(f.input.members)
     IN IF f.input.syntaxOK /\ f.pos < n
          THEN LET m == f.input.members[f.pos + 1]
                   g == [f EXCEPT !.pos = f.pos + 1]
               IN /\ heap' = [heap EXCEPT ![f.someStruct] = ApplyMember(heap[f.someStruct], m)]
                  /\ frame' = [frame EXCEPT ![t] =
                                 IF g.pos < n THEN g ELSE [g EXCEPT !.pc = "validate"]]
          ELSE /\ frame' = [frame EXCEPT ![t].pc = "validate"]
               /\ UNCHANGED heap
  /\ UNCHANGED << container, ptr, tasks, swaps, ret, got >>

\* Lines 48-50: json.Unmarshal([]byte(input), someStruct), one member a step;
\* `return err` when it reports an error.
SetUnmarshal(t) ==
  /\ frame[t].pc = "unmarshal"
  /\ LET f == frame[t]
         n == Len(f.input.members)
     IN IF ~f.input.syntaxOK
          THEN /\ Return(t, f, "SyntaxError")
               /\ UNCHANGED heap
          ELSE IF f.pos < n
            THEN LET m == f.input.members[f.pos + 1]
                     e == IF f.derr = "nil" THEN MemberErr(m) ELSE f.derr
                     g == [f EXCEPT !.pos = f.pos + 1, !.derr = e]
                 IN /\ heap' = [heap EXCEPT ![f.someStruct] = ApplyMember(heap[f.someStruct], m)]
                    /\ IF g.pos < n
                         THEN frame' = [frame EXCEPT ![t] = g] /\ UNCHANGED ret
                         ELSE IF e # "nil"
                           THEN Return(t, g, e)
                           ELSE /\ frame' = [frame EXCEPT ![t] = [g EXCEPT !.pc = "validate"]]
                                /\ UNCHANGED ret
            ELSE /\ frame' = [frame EXCEPT ![t].pc = "validate"]
                 /\ UNCHANGED << heap, ret >>
  /\ UNCHANGED << container, ptr, tasks, swaps, got >>

\* Mutant of SetValidate: the candidate is stored into d.ptr first and the
\* validator is called on the published value.
M_SetValidatePublishesFirst(t) ==
  /\ frame[t].pc = "validate"
  /\ frame' = [frame EXCEPT ![t].pc = IF validator = "nil" THEN "swap" ELSE "valcall"]
  /\ ptr' = IF validator = "nil" THEN ptr ELSE frame[t].someStruct
  /\ UNCHANGED << container, heap, tasks, swaps, ret, got >>

\* Line 51: if d.validator != nil
SetValidate(t) ==
  /\ frame[t].pc = "validate"
  /\ frame' = [frame EXCEPT ![t].pc = IF validator = "nil" THEN "swap" ELSE "valcall"]
  /\ UNCHANGED << container, heap, ptr, tasks, swaps, ret, got >>

\* Mutant of SetValCall: the validator is called and its error is dropped.
M_SetValCallDropsErr(t) ==
  /\ frame[t].pc = "valcall"
  /\ frame' = [frame EXCEPT ![t].vused = validator, ![t].pc = "swap"]
  /\ UNCHANGED << container, heap, ptr, tasks, swaps, ret, got >>

\* Mutant of SetValCall: the candidate is stored into d.ptr before the
\* validator's verdict is acted on.
M_SetValCallAfterStore(t) ==
  /\ frame[t].pc = "valcall"
  /\ LET f == [frame[t] EXCEPT !.vused = validator]
         e == Validate(validator, heap[f.someStruct])
     IN IF e # "nil"
          THEN Return(t, f, e) /\ ptr' = f.someStruct
          ELSE /\ frame' = [frame EXCEPT ![t] = [f EXCEPT !.pc = "swap"]]
               /\ UNCHANGED << ret, ptr >>
  /\ UNCHANGED << container, heap, tasks, swaps, got >>

\* Lines 52-54: if err := d.validator(someStruct); err != nil { return err }
SetValCall(t) ==
  /\ frame[t].pc = "valcall"
  /\ LET f == [frame[t] EXCEPT !.vused = validator]
         e == Validate(validator, heap[f.someStruct])
     IN IF e # "nil"
          THEN Return(t, f, e)
          ELSE /\ frame' = [frame EXCEPT ![t] = [f EXCEPT !.pc = "swap"]]
               /\ UNCHANGED ret
  /\ UNCHANGED << container, heap, ptr, tasks, swaps, got >>

\* Mutant of SetSwap: the store is skipped when d.ptr already points to an
\* instance allocated after this candidate (newest allocation wins).
M_SetSwapKeepsNewer(t) ==
  /\ frame[t].pc = "swap"
  /\ ptr' = IF ptr > frame[t].someStruct THEN ptr ELSE frame[t].someStruct
  /\ frame' = [frame EXCEPT ![t].oldPtr = ptr, ![t].nAtSwap = notifier,
                             ![t].pc = "notify"]
  /\ swaps' = Append(swaps, [old |-> ptr, new |-> frame[t].someStruct,
                             input |-> frame[t].input])
  /\ UNCHANGED << container, heap, tasks, ret, got >>

\* Mutant of SetSwap: oldPtr is taken from the wrong variable, the candidate
\* itself, instead of from the result of SwapPointer.
M_SetSwapOldIsNew(t) ==
  /\ frame[t].pc = "swap"
  /\ ptr' = frame[t].someStruct
  /\ frame' = [frame EXCEPT ![t].oldPtr = frame[t].someStruct, ![t].nAtSwap = notifier,
                             ![t].pc = "notify"]
  /\ swaps' = Append(swaps, [old |-> ptr, new |-> frame[t].someStruct,
                             input |-> frame[t].input])
  /\ UNCHANGED << container, heap, tasks, ret, got >>

\* Line 56: oldPtr := atomic.SwapPointer(&d.ptr, someStruct)
SetSwap(t) ==
  /\ frame[t].pc = "swap"
  /\ ptr' = frame[t].someStruct
  /\ frame' = [frame EXCEPT ![t].oldPtr = ptr, ![t].nAtSwap = notifier,
                             ![t].pc = "notify"]
  /\ swaps' = Append(swaps, [old |-> ptr, new |-> frame[t].someStruct,
                             input |-> frame[t].input])
  /\ UNCHANGED << container, heap, tasks, ret, got >>

\* Mutant of SetNotify: the old value handed to the notifier is read from
\* d.ptr after the swap instead of taken from oldPtr.
M_SetNotifyReadsPtr(t) ==
  /\ frame[t].pc = "notify"
  /\ IF notifier = "nil"
       THEN UNCHANGED tasks
       ELSE tasks' = tasks (+) SetToBag({[fn |-> notifier, old |-> unsafeToStoredType(ptr),
                                          new |-> frame[t].someStruct, st |-> "ready"]})
  /\ Return(t, frame[t], "nil")
  /\ UNCHANGED << container, heap, ptr, swaps, got >>

\* Mutant of SetNotify: the notifier is called without `go`, so Set returns
\* only after the notifier has returned.
M_SetNotifyInline(t) ==
  /\ frame[t].pc = "notify"
  /\ LET mine == { k \in BagToSet(tasks) : k.new = frame[t].someStruct }
     IN IF notifier = "nil" /\ mine = {}
          THEN Return(t, frame[t], "nil") /\ UNCHANGED tasks
          ELSE IF mine = {}
            THEN /\ tasks' = tasks (+) SetToBag({[fn |-> notifier,
                                                  old |-> unsafeToStoredType(frame[t].oldPtr),
                                                  new |-> frame[t].someStruct, st |-> "ready"]})
                 /\ UNCHANGED << frame, ret >>
            ELSE /\ \E k \in mine : k.st = "done"
                 /\ Return(t, frame[t], "nil")
                 /\ UNCHANGED tasks
  /\ UNCHANGED << container, heap, ptr, swaps, got >>

\* Lines 57-60: if d.notifier != nil { go d.notifier(d.unsafeToStoredType(oldPtr),
\* someStruct) }; return nil.  d.notifier is read at line 57 and again at line
\* 58; WithNotifier never stores nil over a notifier here, so the two reads
\* differ only when the first one saw nil, and then line 58 is not reached:
\* one read decides both.
SetNotify(t) ==
  /\ frame[t].pc = "notify"
  /\ IF notifier = "nil"
       THEN UNCHANGED tasks
       ELSE tasks' = tasks (+) SetToBag({[fn |-> notifier,
                                          old |-> unsafeToStoredType(frame[t].oldPtr),
                                          new |-> frame[t].someStruct, st |-> "ready"]})
  /\ Return(t, frame[t], "nil")
  /\ UNCHANGED << container, heap, ptr, swaps, got >>

\* ------------------------------------------------- notifier goroutines
\* Mutant of NotifierRun: notifications are delivered in swap order, as from
\* a queue: a goroutine starts only after the one reporting the swap before
\* its own has started.
M_NotifierRunInSwapOrder(k) ==
  /\ k.st = "ready"
  /\ \/ k.old = SeedAddr
     \/ \E j \in BagToSet(tasks) : j.new = k.old /\ j.st # "ready"
  /\ tasks' = (tasks (-) SetToBag({k})) (+) SetToBag({[k EXCEPT !.st = "running"]})
  /\ UNCHANGED << container, heap, ptr, frame, swaps, ret, got >>

\* The scheduler starts a goroutine created by `go`: the notifier is invoked.
NotifierRun(k) ==
  /\ k.st = "ready"
  /\ tasks' = (tasks (-) SetToBag({k})) (+) SetToBag({[k EXCEPT !.st = "running"]})
  /\ UNCHANGED << container, heap, ptr, frame, swaps, ret, got >>

\* The notifier returns and its goroutine ends; a notifier may also never return.
NotifierReturn(k) ==
  /\ k.st = "running"
  /\ tasks' = (tasks (-) SetToBag({k})) (+) SetToBag({[k EXCEPT !.st = "done"]})
  /\ UNCHANGED << container, heap, ptr, frame, swaps, ret, got >>

\* ------------------------------------------ WithValidator / WithNotifier
\* Mutant of WithValidator: a validator that is already attached is kept.
M_WithValidatorKeepsFirst(v) ==
  /\ reg = "ok"
  /\ validator' = IF validator = "nil" THEN v ELSE validator
  /\ attached' = [attached EXCEPT !.validator = v]
  /\ UNCHANGED << reg, value, flagSet, structType, notifier, heap, ptr, frame, tasks,
                  swaps, ret, got >>

\* Line 67: d.validator = validator
WithValidator(v) ==
  /\ reg = "ok"
  /\ validator' = v
  /\ attached' = [attached EXCEPT !.validator = v]
  /\ UNCHANGED << reg, value, flagSet, structType, notifier, heap, ptr, frame, tasks,
                  swaps, ret, got >>

\* Line 73: d.notifier = notifier
WithNotifier(n) ==
  /\ reg = "ok"
  /\ notifier' = n
  /\ attached' = [attached EXCEPT !.notifier = n]
  /\ UNCHANGED << reg, value, flagSet, structType, validator, heap, ptr, frame, tasks,
                  swaps, ret, got >>

\* ------------------------------------------------------- specification
\* The steps of goroutine t inside Set, once Set has been called.
SetStep(t) ==
  \/ SetUnmarshal(t)
  \/ SetValidate(t)
  \/ SetValCall(t)
  \/ SetSwap(t)
  \/ SetNotify(t)

Next ==
  \/ \E v \in Values : DynJSON(v)
  \/ \E t \in Threads : Get(t)
  \/ \E t \in Threads, in \in Inputs : SetNew(t, in)
  \/ \E t \in Threads : SetUnmarshal(t)
  \/ \E t \in Threads : SetValidate(t)
  \/ \E t \in Threads : SetValCall(t)
  \/ \E t \in Threads : SetSwap(t)
  \/ \E t \in Threads : SetNotify(t)
  \/ \E k \in BagToSet(tasks) : NotifierRun(k)
  \/ \E k \in BagToSet(tasks) : NotifierReturn(k)
  \/ \E v \in Validators : WithValidator(v)
  \/ \E n \in Notifiers : WithNotifier(n)

Spec == Init /\ [][Next]_vars

\* No call of Set is in progress.
Quiet == \A t \in Threads : frame[t].pc = "idle"

\* An application that also replaces the validator and the notifier it has
\* attached by other functions, and attaches only while no Set is in
\* progress: attaching is a configuration-time operation.  Its notifiers
\* never return.
MoreValidators == {"vRetries"}
MoreNotifiers == {"n2"}

ReattachNext ==
  \/ \E v \in Values : DynJSON(v)
  \/ \E t \in Threads : Get(t)
  \/ \E t \in Threads, in \in Inputs : SetNew(t, in)
  \/ \E t \in Threads : SetStep(t)
  \/ \E k \in BagToSet(tasks) : NotifierRun(k)
  \/ \E v \in Validators \cup MoreValidators : Quiet /\ WithValidator(v)
  \/ \E n \in Notifiers \cup MoreNotifiers : Quiet /\ WithNotifier(n)

ReattachSpec == Init /\ [][ReattachNext]_vars

\* An application that also renders the value, and may register a struct
\* type json.Marshal cannot encode.  What the notifier goroutines do once
\* started is left out: no operation of the container depends on it.
RenderNext ==
  \/ \E v \in Values \cup MoreValues : DynJSON(v)
  \/ \E t \in Threads : Get(t)
  \/ \E t \in Threads : String(t)
  \/ \E t \in Threads : PrettyString(t)
  \/ \E t \in Threads, in \in Inputs : SetNew(t, in)
  \/ \E t \in Threads : SetStep(t)
  \/ \E v \in Validators : WithValidator(v)
  \/ \E n \in Notifiers : WithNotifier(n)

RenderSpec == Init /\ [][RenderNext]_vars

\* The Go scheduler: a goroutine that can run eventually runs, so a Set that
\* was called goes on and a goroutine created by `go` starts.  Nothing makes a
\* notifier return, and nothing makes the application call Set or Get.
FairSpec ==
  /\ Spec
  /\ \A t \in Threads : WF_vars(SetStep(t))
  /\ WF_vars(\E k \in BagToSet(tasks) : NotifierRun(k))

\* ---------------------------------------------------- derived notions
\* The addresses SwapPointer has stored into d.ptr so far.
Published == { swaps[i].new : i \in 1..Len(swaps) }

\* The number of notifier goroutines started for the candidate at address a.
RECURSIVE SumCopies(_)
SumCopies(S) ==
  IF S = {} THEN 0
  ELSE LET k == CHOOSE x \in S : TRUE IN CopiesIn(k, tasks) + SumCopies(S \ {k})

NumTasks(a) == SumCopies({ k \in BagToSet(tasks) : k.new = a })

\* A candidate passes the two gates of Set: the input decodes, and the
\* validator that was called for it, if any, accepts the decoded value.
PassesGates(in, v) ==
  /\ Decode(in).err = "nil"
  /\ v # "nil" => Validate(v, Decode(in).val) = "nil"

\* ------------------------------------------------------------ claims

\* C1: a candidate becomes the current value if and only if its input decoded
\* and the validator Set called for it (if one was attached) accepted it.  The
\* current value is the seed or the last swapped candidate; every swap stored
\* the complete decode of an input that decodes; a call past its swap has a
\* candidate that passed both gates; and a Set call that has returned
\* published its candidate exactly when the candidate passed both.
C1_PublishedIffPassedGates ==
  reg = "ok" =>
    /\ ptr = IF swaps = << >> THEN SeedAddr ELSE swaps[Len(swaps)].new
    /\ \A i \in 1..Len(swaps) :
         /\ Decode(swaps[i].input).err = "nil"
         /\ heap[swaps[i].new] = Decode(swaps[i].input).val
    /\ \A t \in Threads :
         frame[t].pc = "notify" =>
           /\ frame[t].someStruct \in Published
           /\ PassesGates(frame[t].input, frame[t].vused)
    /\ ret # NoRet =>
         (ret.someStruct \in Published <=> PassesGates(ret.input, ret.vused))

\* C1 witness: a Set whose candidate the validator accepted has returned and
\* its candidate is current, after an earlier candidate was published without
\* a validator.
W1_AcceptedByValidator ==
  /\ ret.err = "nil"
  /\ ret.vused = "vPositive"
  /\ ptr = ret.someStruct
  /\ Len(swaps) = 2

\* C2: no torn reads.  Whatever Get returned, under any interleaving with Set
\* calls, is one complete published instance: the seed with the seed's
\* contents, or the candidate some swap stored, with exactly the contents the
\* input of that Set decodes to.
C2_NoTornReads ==
  got # NoGet =>
    \/ got.addr = SeedAddr /\ got.val = SeedVal
    \/ \E i \in 1..Len(swaps) :
         swaps[i].new = got.addr /\ got.val = Decode(swaps[i].input).val

\* C2 witness: a Get returned a published candidate while another goroutine's
\* Set is half-way through decoding a two-member input.
W2_GetDuringUnmarshal ==
  /\ got.addr \in Published
  /\ \E u \in Threads \ {got.by} :
       /\ frame[u].pc = "unmarshal"
       /\ frame[u].pos = 1
       /\ heap[frame[u].someStruct] # Zero

\* C3 as stated: after a Set by goroutine t returned nil, every later Get by t
\* sees decode(input).
C3_Original ==
  (got # NoGet /\ ret # NoRet /\ got.by = ret.by /\ ret.err = "nil")
    => got.val = Decode(ret.input).val

\* C3 amended: after a Set by goroutine t returned nil, a later Get by t
\* returns that Set's candidate, equal to decode(input), as long as no other
\* swap has followed that Set's swap.
C3_ReadAfterWrite ==
  (/\ got # NoGet /\ ret # NoRet /\ got.by = ret.by /\ ret.err = "nil"
   /\ swaps # << >> /\ swaps[Len(swaps)].new = ret.someStruct)
    => got.addr = ret.someStruct /\ got.val = Decode(ret.input).val

\* C3 witness: a goroutine's Set, the second swap on the container, returned
\* nil and the goroutine then called Get.
W3_GetAfterOwnSet ==
  /\ got # NoGet /\ got.by = ret.by /\ ret.err = "nil"
  /\ Len(swaps) = 2 /\ swaps[2].new = ret.someStruct
  /\ got.val # SeedVal

\* The input of the call of Set that goroutine t is in, or enters, in a step.
CallInput(t) == IF frame[t].pc = "idle" THEN frame'[t].input ELSE frame[t].input

\* A step leaves the current value alone and starts no notifier goroutine.
NoWrite == ptr' = ptr /\ heap'[ptr] = heap[ptr] /\ tasks' = tasks

\* C4: decode failure.  A Set whose input does not decode returns the decode
\* error, its candidate is never stored into d.ptr and no notifier goroutine is
\* started for it; and no step of such a call writes d.ptr, changes the
\* instance d.ptr points to, or starts a notifier goroutine.
C4_DecodeFailure ==
  /\ [](ret # NoRet /\ Decode(ret.input).err # "nil" =>
          /\ ret.err = Decode(ret.input).err
          /\ ret.someStruct \notin Published
          /\ ptr # ret.someStruct
          /\ NumTasks(ret.someStruct) = 0)
  /\ [][\A t \in Threads :
          (frame'[t] # frame[t] /\ Decode(CallInput(t)).err # "nil") => NoWrite]_vars

\* C4 witness: with a notifier attached and a candidate already published, a
\* Set returned a type error after json.Unmarshal had filled another field.
W4_DecodeErrorAfterPartialFill ==
  /\ ret.err = "UnmarshalTypeError"
  /\ heap[ret.someStruct].Retries = 3
  /\ swaps # << >>
  /\ notifier # "nil"

\* C5: validator failure.  A Set whose decoded candidate the validator rejects
\* returns exactly the validator's error, its candidate is never stored into
\* d.ptr and no notifier goroutine is started for it; and no step of Set up to
\* and including the validator call writes d.ptr, changes the instance d.ptr
\* points to, or starts a notifier goroutine.
C5_ValidatorFailure ==
  /\ [](ret # NoRet /\ ret.vused # "nil" /\ Decode(ret.input).err = "nil"
          /\ Validate(ret.vused, Decode(ret.input).val) # "nil" =>
          /\ ret.err = Validate(ret.vused, Decode(ret.input).val)
          /\ ret.someStruct \notin Published
          /\ ptr # ret.someStruct
          /\ NumTasks(ret.someStruct) = 0)
  /\ [][\A t \in Threads :
          (/\ frame'[t] # frame[t]
           /\ frame[t].pc \in {"idle", "unmarshal", "validate", "valcall"}) => NoWrite]_vars

\* C5 witness: with a notifier attached and a candidate already published, a
\* Set returned the validator's error.
W5_ValidatorRejected ==
  /\ ret.err = "ErrTimeout"
  /\ ret.vused = "vPositive"
  /\ swaps # << >>
  /\ notifier # "nil"

\* The pointer that the swap publishing address a replaced.
OldOf(a) == swaps[CHOOSE i \in 1..Len(swaps) : swaps[i].new = a].old

\* The notification of the candidate at address a is outstanding: its Set
\* swapped it in while a notifier was attached and has not yet returned, or the
\* goroutine started for it has not yet invoked the notifier.
Outstanding(a) ==
  \/ \E t \in Threads : /\ frame[t].pc = "notify" /\ frame[t].someStruct = a
                         /\ frame[t].nAtSwap # "nil"
  \/ \E k \in BagToSet(tasks) : k.new = a /\ k.st = "ready"

\* C6: the notifier fires once per successful Set.  A notifier goroutine is
\* started only for a candidate that was swapped in, at most one for each; its
\* oldValue is the pointer that swap replaced and its newValue the candidate; a
\* Set that swapped while a notifier was attached has started exactly one by
\* the time it returns; a Set that returned an error started none.  Under fair
\* scheduling no notification stays outstanding: the Set goes on to start the
\* goroutine and the goroutine invokes the notifier.
C6_NotifierOncePerSet ==
  /\ [](/\ \A k \in BagToSet(tasks) :
             /\ k.new \in Published
             /\ k.old = OldOf(k.new)
             /\ NumTasks(k.new) = 1
        /\ (ret # NoRet /\ ret.err = "nil" /\ ret.nAtSwap # "nil")
             => NumTasks(ret.someStruct) = 1
        /\ (ret # NoRet /\ ret.err # "nil") => NumTasks(ret.someStruct) = 0)
  /\ \A a \in 1..MaxSets : []<>(~Outstanding(a))

\* C6 witness: the notifier of the second successful Set has run to
\* completion; its oldValue is the first published candidate, which got its
\* own notification.
W6_SecondNotification ==
  \E k \in BagToSet(tasks) :
    /\ k.st = "done"
    /\ k.old \in Published
    /\ NumTasks(k.old) = 1
    /\ ret.err = "nil"

\* C7: Set never waits on the notifier.  Under fair scheduling of the callers,
\* with nothing making a notifier return, no goroutine stays inside Set: every
\* call returns, the one that started the notifier and any call made while a
\* notifier is running.
C7_SetNeverWaits ==
  \A t \in Threads : []<>(frame[t].pc = "idle")

\* C7 witness: a notifier is still running while the Set of a candidate
\* allocated after the one it reports has returned nil and a Get has returned
\* that candidate.
W7_ReturnedWhileNotifierRuns ==
  \E k \in BagToSet(tasks) :
    /\ k.st = "running"
    /\ ret.err = "nil"
    /\ ret.someStruct > k.new
    /\ got.addr = ret.someStruct

\* C8: last writer wins.  Once no Set is in progress, d.ptr is the candidate
\* of the swap that occurred last; every Set that returned nil has its
\* candidate in the swap history; and the step in which a Set passes line 56
\* leaves d.ptr pointing to that Set's candidate, so each successful
\* candidate was current at that instant.
C8_LastWriterWins ==
  /\ []((reg = "ok" /\ swaps # << >> /\ \A t \in Threads : frame[t].pc = "idle")
          => ptr = swaps[Len(swaps)].new)
  /\ []((ret # NoRet /\ ret.err = "nil") => ret.someStruct \in Published)
  /\ [][\A t \in Threads :
          (frame[t].pc = "swap" /\ frame'[t].pc # "swap")
            => (ptr' = frame[t].someStruct /\ swaps' # swaps)]_vars

\* C8 witness: two concurrent Sets both returned nil; the candidate allocated
\* first was swapped in last and is the current value.
W8_LaterSwapOfOlderCandidate ==
  /\ \A t \in Threads : frame[t].pc = "idle"
  /\ Len(swaps) = 2
  /\ swaps[1].new > swaps[2].new
  /\ ptr = swaps[2].new
  /\ ret.err = "nil"

\* C9: Set never mutates a published instance.  The contents a reader saw
\* through the pointer Get returned are still the contents of that instance
\* after any later Set calls, successful or failed; and every swap stores an
\* address that is neither the seed nor the address of an earlier swap.
C9_PublishedNeverMutated ==
  /\ got # NoGet => heap[got.addr] = got.val
  /\ \A i \in 1..Len(swaps) :
       /\ swaps[i].new # SeedAddr
       /\ swaps[i].new # swaps[i].old
       /\ \A j \in 1..(i - 1) : swaps[j].new # swaps[i].new

\* C9 witness: a reader holds the seed while a Set has since replaced it and
\* another Set has failed after filling part of its candidate.
W9_ReaderHoldsSeed ==
  /\ got.addr = SeedAddr
  /\ Len(swaps) = 1
  /\ ret.err = "UnmarshalTypeError"
  /\ ret.by # got.by

\* C10: seed default.  As long as no Set has succeeded - right after
\* registration or after Set calls that all returned an error - Get returns
\* the very instance passed to DynJSON, with its contents untouched.
C10_SeedDefault ==
  (got # NoGet /\ swaps = << >>) => (got.addr = SeedAddr /\ got.val = SeedVal)

\* C10 witness: a Set returned an error, no Set has succeeded, and the same
\* goroutine then called Get and received the seed.
W10_SeedAfterFailedSet ==
  /\ swaps = << >>
  /\ ret # NoRet /\ ret.err # "nil"
  /\ got.by = ret.by
  /\ got.addr = SeedAddr

\* C11: fail-fast registration.  DynJSON panics exactly when its value is not
\* a pointer to a struct; after the panic no container exists (no field of it
\* was set and no operation on it ever runs) and the flag set holds no flag.
\* A call that returns has registered the flag.
C11_FailFastRegistration ==
  /\ (reg = "panic") <=> (value # NoValue /\ ~(value.kind = "Ptr" /\ value.elem = "Struct"))
  /\ (reg = "ok") <=> (value.kind = "Ptr" /\ value.elem = "Struct")
  /\ (reg = "ok") => flagSet # {}
  /\ (reg = "panic") =>
       /\ flagSet = {}
       /\ structType = "none" /\ ptr = NilAddr /\ validator = "nil" /\ notifier = "nil"
       /\ \A t \in Threads : frame[t] = Idle
       /\ swaps = << >> /\ tasks = EmptyBag /\ got = NoGet /\ ret = NoRet

\* C11 witness: DynJSON was handed a pointer to an int and panicked.
W11_PanicOnPointerToInt ==
  /\ reg = "panic"
  /\ value.kind = "Ptr" /\ value.elem = "Int"

\* C12 as stated: the field holds the function attached last, a Set calls the
\* validator attached last and starts its goroutine with the notifier attached
\* last, attaching changes nothing else, and a notifier that has been replaced
\* is never invoked again.
C12_Original ==
  /\ [](validator = attached.validator /\ notifier = attached.notifier)
  /\ [][\A k \in BagToSet(tasks') \ BagToSet(tasks) : k.fn = attached.notifier]_vars

\* C12 amended: one validator and one notifier at a time.  The fields hold
\* the functions attached last; the validator a Set calls, and whose verdict
\* it follows, is the one attached last; the notifier a Set hands to its
\* goroutine is the one attached last, so a replaced notifier is invoked only
\* by goroutines started before it was replaced; and attaching changes neither
\* the current value nor anything else: the current value is not validated
\* again.
C12_MostRecentAttachment ==
  /\ [](validator = attached.validator /\ notifier = attached.notifier)
  /\ [][\A t \in Threads :
          (frame[t].pc = "valcall" /\ frame'[t] # frame[t]) =>
            LET e == Validate(attached.validator, heap[frame[t].someStruct])
            IN IF e # "nil"
                 THEN /\ frame'[t] = Idle
                      /\ ret'.err = e /\ ret'.vused = attached.validator
                 ELSE /\ frame'[t].pc = "swap"
                      /\ frame'[t].vused = attached.validator]_vars
  /\ [][\A k \in BagToSet(tasks') \ BagToSet(tasks) :
          k.st = "ready" => k.fn = attached.notifier]_vars
  /\ [][attached' # attached =>
          /\ ptr' = ptr /\ heap' = heap /\ swaps' = swaps
          /\ frame' = frame /\ tasks' = tasks /\ ret' = ret /\ got' = got]_vars

\* C12 witness: a Set ran under vPositive and started a goroutine with n1;
\* both functions were then replaced, and a later Set was validated by
\* vRetries and swapped while n2 was attached.
W12_SetAfterReattachment ==
  /\ ret.vused = "vPositive"
  /\ \E k \in BagToSet(tasks) : k.fn = "n1"
  /\ \E t \in Threads : /\ frame[t].pc = "notify"
                         /\ frame[t].vused = "vRetries"
                         /\ frame[t].nAtSwap = "n2"

\* C13: rendering never fails.  String and PrettyString can always be called
\* and return a string: the JSON text of the instance Get returns at that
\* moment (compact for String, indented for PrettyString; decoding it gives
\* the instance back) when json.Marshal succeeds, and "ERR" when it fails.
C13_RenderingNeverFails ==
  /\ [](got.fn \in {"String", "PrettyString"} =>
          LET m == MarshalIndent(structType, got.val,
                                 IF got.fn = "PrettyString" THEN "  " ELSE "")
          IN /\ got.out.kind \in {"json", "ERR"}
             /\ got.out = IF m.err = "nil" THEN m.out ELSE ERR
             /\ got.out.kind = "json" =>
                  Decode([syntaxOK |-> TRUE, members |-> got.out.members])
                    = [val |-> got.val, err |-> "nil"]
             /\ structType = "Watch" => got.out = ERR)
  /\ [](\A t \in Threads : (reg = "ok" /\ frame[t].pc = "idle") =>
          (ENABLED String(t) /\ ENABLED PrettyString(t)))
  /\ [][(got' # got /\ got'.fn \in {"String", "PrettyString"}) =>
          (got'.addr = ptr /\ got'.val = heap[ptr])]_vars

\* C13 witness: after a successful Set on a container of a struct type that
\* json.Marshal cannot encode, String returned "ERR".
W13_ErrAfterSet ==
  /\ got.fn = "String"
  /\ got.out = ERR
  /\ got.addr \in Published

\* C14: Get is read-only and non-blocking.  A goroutine that is not inside
\* Set can always call Get, whatever the other goroutines are doing; and a
\* step in which Get, String or PrettyString returns changes nothing but the
\* caller's result: not the current value, the instances, the stored type,
\* the validator, the notifier, the notifier goroutines or any call of Set.
C14_GetReadOnly ==
  /\ [](\A t \in Threads : (reg = "ok" /\ frame[t].pc = "idle") => ENABLED Get(t))
  /\ [][(got' # got /\ got' # NoGet) =>
          /\ got'.fn \in {"Get", "String", "PrettyString"}
          /\ ptr' = ptr /\ heap' = heap /\ structType' = structType
          /\ validator' = validator /\ notifier' = notifier
          /\ tasks' = tasks /\ frame' = frame /\ swaps' = swaps /\ ret' = ret
          /\ flagSet' = flagSet /\ reg' = reg]_vars

\* C14 witness: with a validator and a notifier attached, Get returned the
\* candidate another goroutine's Set had just swapped in, that Set not having
\* returned yet.
W14_GetDuringSet ==
  /\ got.fn = "Get"
  /\ validator # "nil" /\ notifier # "nil"
  /\ \E u \in Threads \ {got.by} :
       frame[u].pc = "notify" /\ frame[u].someStruct = got.addr

\* The position in the swap history of the swap that published address a.
SwapIndex(a) == CHOOSE i \in 1..Len(swaps) : swaps[i].new = a

\* C15: notification order is not tied to swap order.  Every notifier
\* goroutine that has been started and has not yet run can run next,
\* whatever the state of the goroutines of the other swaps; so the notifier
\* of a later swap may be invoked before the notifier of an earlier one.
C15_NotificationOrderFree ==
  \A k \in BagToSet(tasks) : k.st = "ready" => ENABLED NotifierRun(k)

\* C15 witness: two Sets overlap; the notifier of the second swap has been
\* invoked while the Set of the first swap, made with a notifier attached,
\* has not even started its goroutine.
W15_LaterNotifiedFirst ==
  /\ Len(swaps) = 2
  /\ \E k \in BagToSet(tasks) : k.new = swaps[2].new /\ k.st # "ready"
  /\ \E t \in Threads : /\ frame[t].pc = "notify"
                         /\ frame[t].someStruct = swaps[1].new
                         /\ frame[t].nAtSwap # "nil"

\* The fields of the struct that the members of input in name.
Named(in) == { FieldOf(in.members[i].key) : i \in 1..Len(in.members) }

\* C16: the value a successful Set publishes is a function of the input
\* alone.  A candidate starts as the zero value whatever the current value
\* is; a published instance is the zero value overlaid with the decoded
\* input, so a field the input does not name is zero; and two swaps of the
\* same input publish equal values, whatever was current before each.
C16_PublishedFromInputAlone ==
  /\ \A t \in Threads :
       (frame[t].pc = "unmarshal" /\ frame[t].pos = 0) => heap[frame[t].someStruct] = Zero
  /\ \A i \in 1..Len(swaps) :
       /\ heap[swaps[i].new] = DecodeFrom(swaps[i].input.members, 1, Zero, "nil").val
       /\ \A f \in Fields \ Named(swaps[i].input) : heap[swaps[i].new][f] = 0
  /\ \A i, j \in 1..Len(swaps) :
       swaps[i].input = swaps[j].input => heap[swaps[i].new] = heap[swaps[j].new]

\* C16 witness: the same input, which names one field only, was swapped in
\* twice, over current values that differ in the other field.
W16_SameInputTwice ==
  /\ Len(swaps) = 2
  /\ swaps[1].input = swaps[2].input
  /\ Fields \ Named(swaps[1].input) # {}
  /\ heap[swaps[1].old].Retries # heap[swaps[2].old].Retries

\* The instance that was current right before the i-th swap.
Before(i) == IF i = 1 THEN SeedAddr ELSE swaps[i - 1].new

\* C17: the notification pairs form a single chain.  Each swap replaced the
\* candidate of the swap before it (the seed for the first); the oldValue of
\* a notifier goroutine is the instance that was current right before the
\* swap of its newValue; no two goroutines have the same oldValue; the
\* current value is nobody's oldValue; and when the swap following a swap is
\* notified, that swap's candidate is its oldValue: no instance is skipped.
C17_NotificationChain ==
  /\ \A i \in 1..Len(swaps) : swaps[i].old = Before(i)
  /\ \A k \in BagToSet(tasks) :
       /\ k.old = Before(SwapIndex(k.new))
       /\ k.old # ptr
       /\ CopiesIn(k, tasks) = 1
       /\ \A j \in BagToSet(tasks) : j.old = k.old => j.new = k.new
  /\ \A i \in 1..Len(swaps) :
       (i > 1 /\ \E k \in BagToSet(tasks) : k.new = swaps[i].new)
         => \E k \in BagToSet(tasks) : k.old = swaps[i - 1].new

\* C17 witness: two overlapping Sets swapped in the order opposite to the one
\* in which they allocated their candidates; both notifier goroutines were
\* started, the first with the seed, the second with the first's candidate.
W17_ChainAcrossConcurrentSets ==
  /\ Len(swaps) = 2
  /\ swaps[1].new > swaps[2].new
  /\ \E k1, k2 \in BagToSet(tasks) :
       /\ k1.new = swaps[1].new /\ k1.old = SeedAddr
       /\ k2.new = swaps[2].new /\ k2.old = k1.new

\* The position of the instance at address a in the order of publication:
\* 0 for the seed, i for the candidate of the i-th swap.
Pos(a) == IF a = SeedAddr THEN 0 ELSE SwapIndex(a)

\* C18: reads never go backwards.  A Get returns the candidate of the last
\* swap completed before it (the seed when there is none), never an
\* instance published before that swap; and it returns the instance the
\* Get before it returned, or one published later.
C18_ReadsNeverGoBack ==
  [][(got' # got /\ got' # NoGet) =>
       /\ got'.addr = IF swaps = << >> THEN SeedAddr ELSE swaps[Len(swaps)].new
       /\ got # NoGet => Pos(got'.addr) >= Pos(got.addr)]_vars

\* C18 witness: a Get returned the candidate of the second swap while the
\* Set that made the first swap had not yet returned.
W18_GetSeesLaterSwap ==
  /\ Len(swaps) = 2
  /\ got.addr = swaps[2].new
  /\ \E t \in Threads \ {got.by} :
       frame[t].pc = "notify" /\ frame[t].someStruct = swaps[1].new

\* C19: the validator runs strictly before publication, in the call of Set
\* itself.  While a Set is decoding or its validator is executing, its
\* candidate has not been stored into d.ptr and no Get has returned it; a
\* call of Set is past the validator call only if the validator found no
\* error in the candidate; and an instance other than the seed that Get
\* returned was swapped in by a Set which is past its validator call.
C19_ValidatedBeforePublished ==
  /\ \A t \in Threads :
       /\ frame[t].pc \in {"unmarshal", "validate", "valcall"} =>
            /\ frame[t].vused = "nil"
            /\ ptr # frame[t].someStruct
            /\ frame[t].someStruct \notin Published
            /\ got.addr # frame[t].someStruct
       /\ frame[t].vused # "nil" =>
            /\ frame[t].pc \in {"swap", "notify"}
            /\ Validate(frame[t].vused, heap[frame[t].someStruct]) = "nil"
  /\ (got # NoGet /\ got.addr # SeedAddr) =>
       /\ got.addr \in Published
       /\ \A t \in Threads : frame[t].someStruct = got.addr => frame[t].pc = "notify"
       /\ ret.someStruct = got.addr =>
            /\ ret.err = "nil"
            /\ ret.vused # "nil" => Validate(ret.vused, got.val) = "nil"

\* C19 witness: a Set is at its validator call; after that Set had allocated
\* its candidate, the other goroutine published a candidate of its own and
\* Get returned it.
W19_GetWhileValidating ==
  \E t \in Threads :
    /\ frame[t].pc = "valcall"
    /\ got.by # t
    /\ got.addr > frame[t].someStruct

====
